---- MODULE Spec2Model ----
(***************************************************************************)
(* PieLogger (src/src/PieLogger.js): a leveled logger with a console sink  *)
(* and a file sink that is a Node fs.WriteStream opened in append mode.    *)
(*                                                                         *)
(* One logger instance is modelled: its construction, the emission calls   *)
(* of one sequential caller, and the asynchronous steps of the write       *)
(* stream (open, flush) together with the failures the platform can raise  *)
(* (console.log throwing, mkdirSync throwing, the stream emitting 'error').*)
(* A formatted line is a record: the position of the record among the      *)
(* emitted ones, its level and the byte length of the formatted text.      *)
(***************************************************************************)
EXTENDS Integers, Sequences, FiniteSets

\* ---------------------------------------------------------------- bounds
\* Emission calls made by the caller in one run.
MaxCalls == 3

\* ------------------------------------------------------------- constants
DEBUG == 10
INFO == 20
WARNING == 30
ERROR == 40
CRITICAL == 50

\* A level that is none of the five: log() accepts any number.
OtherLevels == {25}

\* Values of options.minimumLogLevel, options.logFileSizeLimit and
\* options.maxBackupFiles the runs are constructed with.
MinLevels == {INFO, WARNING}
SizeLimits == {100}
BackupCounts == {0, 2}

\* Byte lengths of the formatted text of a record (without the newline).
MsgBytes == {39, 99}

VARIABLES
    pc,               \* "new" | "ready" | "aborted" (constructor threw) | "crashed" (uncaught 'error')
    minimumLogLevel,  \* this.minimumLogLevel
    logToFile,        \* this.logToFile
    logFileSizeLimit, \* this.logFileSizeLimit
    maxBackupFiles,   \* this.maxBackupFiles
    dirExists,        \* the session directory exists on disk
    fileWriteStream,  \* this.fileWriteStream: "undefined" | "opening" | "open" | "destroyed"
    streamBuf,        \* lines accepted by the stream and not yet on disk
    file,             \* lines of the current log file, in append order
    backups,          \* backup files of the session directory, generation 1 first
    console,          \* lines printed on the console
    emitted,          \* records formatted by log(), in call order
    nCalls,           \* emission calls made so far
    lastCall,         \* level and size of the latest emission call
    lastOutcome,      \* how the latest emission call ended: "none" | "returned" | "threw"
    failure           \* platform failures met so far: subset of {"console","mkdir","open","write"}

vars == << pc, minimumLogLevel, logToFile, logFileSizeLimit, maxBackupFiles,
           dirExists, fileWriteStream, streamBuf, file, backups, console,
           emitted, nCalls, lastCall, lastOutcome, failure >>

config == << minimumLogLevel, logToFile, logFileSizeLimit, maxBackupFiles >>
disk == << dirExists, file, backups >>
ghost == << emitted, nCalls, lastCall, lastOutcome >>

\* ------------------------------------------------------------- helpers
\* Bytes a line takes in the file: the text and the newline fileLog adds.
LineBytes(line) == line.bytes + 1

RECURSIVE Bytes(_)
Bytes(lines) ==
    IF lines = << >> THEN 0 ELSE LineBytes(Head(lines)) + Bytes(Tail(lines))

RECURSIVE Concat(_)
Concat(files) ==
    IF files = << >> THEN << >> ELSE Head(files) \o Concat(Tail(files))

Reverse(s) == [i \in 1..Len(s) |-> s[Len(s) + 1 - i]]

\* The lines of the log file set: backups oldest to newest, then the
\* current file.
FileSetLines == Concat(Reverse(backups)) \o file

Range(s) == {s[i] : i \in 1..Len(s)}

\* ------------------------------------------------------ faulty variants
\* The threshold comparison turned around.
BelowThresholdInverted(level) == level > minimumLogLevel

\* The file opened for writing on every chunk: earlier lines are lost.
OverwriteFile(line) == << line >>

\* The line handed to the stream twice.
fileLogTwice(line) ==
    IF fileWriteStream # "undefined"
    THEN streamBuf' = Append(Append(streamBuf, line), line)
    ELSE UNCHANGED streamBuf

\* ---------------------------------------------------------------- Init
Init ==
    /\ pc = "new"
    /\ minimumLogLevel \in MinLevels
    /\ logToFile \in BOOLEAN
    /\ logFileSizeLimit \in SizeLimits
    /\ maxBackupFiles \in BackupCounts
    /\ dirExists = FALSE
    /\ fileWriteStream = "undefined"
    /\ streamBuf = << >>
    /\ file = << >>
    /\ backups = << >>
    /\ console = << >>
    /\ emitted = << >>
    /\ nCalls = 0
    /\ lastCall = [level |-> 0, bytes |-> 0]
    /\ lastOutcome = "none"
    /\ failure = {}

\* ------------------------------------------------------- construction
\* setupLogDirectory(): mkdirSync throws when the directory cannot be made
\* (nothing catches it), otherwise the stream is created and opens later.
setupLogDirectory(mkdirFails) ==
    IF ~dirExists /\ mkdirFails
    THEN /\ pc' = "aborted"
         /\ failure' = failure \cup {"mkdir"}
         /\ UNCHANGED << dirExists, fileWriteStream >>
    ELSE /\ pc' = "ready"
         /\ dirExists' = TRUE
         /\ fileWriteStream' = "opening"
         /\ UNCHANGED failure

\* new PieLogger(options)
Construct ==
    /\ pc = "new"
    /\ \E mkdirFails \in BOOLEAN :
          IF logToFile
          THEN setupLogDirectory(mkdirFails)
          ELSE /\ pc' = "ready"
               /\ UNCHANGED << dirExists, fileWriteStream, failure >>
    /\ UNCHANGED << config, streamBuf, file, backups, console, ghost >>

\* ------------------------------------------------------- write stream
\* The stream opens the file in append mode; a failure is an 'error'
\* event, and the logger registers no listener for it.
StreamOpen ==
    /\ pc = "ready"
    /\ fileWriteStream = "opening"
    /\ \E ok \in BOOLEAN :
          IF ok
          THEN /\ fileWriteStream' = "open"
               /\ UNCHANGED << pc, failure >>
          ELSE /\ fileWriteStream' = "destroyed"
               /\ pc' = "crashed"
               /\ failure' = failure \cup {"open"}
    /\ UNCHANGED << config, dirExists, streamBuf, file, backups, console, ghost >>

\* flags: "a": a chunk is written after what the file already holds.
AppendToFile(line) == Append(file, line)

\* The stream writes its oldest buffered chunk to the file.
StreamFlush ==
    /\ pc = "ready"
    /\ fileWriteStream = "open"
    /\ streamBuf # << >>
    /\ \E ok \in BOOLEAN :
          IF ok
          THEN /\ file' = AppendToFile(Head(streamBuf))
               /\ streamBuf' = Tail(streamBuf)
               /\ UNCHANGED << pc, fileWriteStream, failure >>
          ELSE /\ fileWriteStream' = "destroyed"
               /\ pc' = "crashed"
               /\ failure' = failure \cup {"write"}
               /\ UNCHANGED << file, streamBuf >>
    /\ UNCHANGED << config, dirExists, backups, console, ghost >>

\* ------------------------------------------------------------ emission
\* LevelFilter: the early return of log().
BelowThreshold(level) == level < minimumLogLevel

\* fileLog(logMessage): hand the line to the stream when there is one.
fileLog(line) ==
    IF fileWriteStream # "undefined"
    THEN streamBuf' = Append(streamBuf, line)
    ELSE UNCHANGED streamBuf

\* consoleLog(level, logMessage)
consoleLog(line) == console' = Append(console, line)

\* log(level, message, details)
log(level, bytes, consoleThrows) ==
    /\ pc = "ready"
    /\ nCalls < MaxCalls
    /\ nCalls' = nCalls + 1
    /\ lastCall' = [level |-> level, bytes |-> bytes]
    /\ IF BelowThreshold(level)
       THEN /\ lastOutcome' = "returned"
            /\ UNCHANGED << emitted, console, streamBuf, failure >>
       ELSE LET line == [id |-> Len(emitted) + 1, level |-> level, bytes |-> bytes]
            IN /\ emitted' = Append(emitted, line)
               /\ IF consoleThrows
                  THEN /\ lastOutcome' = "threw"
                       /\ failure' = failure \cup {"console"}
                       /\ UNCHANGED << console, streamBuf >>
                  ELSE /\ lastOutcome' = "returned"
                       /\ consoleLog(line)
                       /\ IF logToFile THEN fileLog(line) ELSE UNCHANGED streamBuf
                       /\ UNCHANGED failure
    /\ UNCHANGED << pc, config, disk, fileWriteStream >>

Log == \E level \in OtherLevels, b \in MsgBytes, t \in BOOLEAN : log(level, b, t)
Debug == \E b \in MsgBytes, t \in BOOLEAN : log(DEBUG, b, t)
Info == \E b \in MsgBytes, t \in BOOLEAN : log(INFO, b, t)
Warning == \E b \in MsgBytes, t \in BOOLEAN : log(WARNING, b, t)
Error == \E b \in MsgBytes, t \in BOOLEAN : log(ERROR, b, t)
Critical == \E b \in MsgBytes, t \in BOOLEAN : log(CRITICAL, b, t)

Next ==
    \/ Construct
    \/ StreamOpen
    \/ StreamFlush
    \/ Log
    \/ Debug
    \/ Info
    \/ Warning
    \/ Error
    \/ Critical

Spec == Init /\ [][Next]_vars

\* ---------------------------------------------- vocabulary of the claims
NoFailure == failure = {}

\* The latest transition was an emission call.
Called == nCalls' = nCalls + 1

\* Rotations the write-then-check rule asks for while `lines` are written
\* one after the other, `acc` bytes being in the current file already.
RECURSIVE RotationsDue(_, _)
RotationsDue(lines, acc) ==
    IF lines = << >>
    THEN 0
    ELSE LET n == acc + LineBytes(Head(lines))
         IN IF n >= logFileSizeLimit
            THEN 1 + RotationsDue(Tail(lines), 0)
            ELSE RotationsDue(Tail(lines), n)

\* ----------------------------------------------------------------- C1
\* C1: an emission call with level < minimumLogLevel returns normally and
\* changes nothing: no console line, nothing handed to the stream, nothing
\* on disk, no field of the logger, whatever was emitted before.
C1_FilteredCallHasNoEffect ==
    [][ (Called /\ lastCall'.level < minimumLogLevel)
        => /\ lastOutcome' = "returned"
           /\ UNCHANGED << pc, config, disk, fileWriteStream, streamBuf,
                           console, emitted, failure >> ]_vars

C1_Witness ==
    /\ nCalls >= 2
    /\ lastCall.level < minimumLogLevel
    /\ lastOutcome = "returned"
    /\ console # << >>
    /\ emitted # << >>

\* ----------------------------------------------------------------- C2
\* C2: while no sink has failed and the emitted bytes stay within
\* (maxBackupFiles + 1) * logFileSizeLimit, the console holds exactly the
\* emitted records in call order, and so does the log file set (backups
\* oldest to newest, then the current file) followed by the lines the
\* stream has accepted and not yet written.
C2_SinksHoldEmittedInOrder ==
    (NoFailure /\ Bytes(emitted) <= (maxBackupFiles + 1) * logFileSizeLimit)
    => /\ console = emitted
       /\ logToFile /\ pc = "ready" => FileSetLines \o streamBuf = emitted

C2_Witness ==
    /\ NoFailure
    /\ logToFile
    /\ Bytes(emitted) <= (maxBackupFiles + 1) * logFileSizeLimit
    /\ Len(emitted) >= 2
    /\ streamBuf = << >>
    /\ FileSetLines = emitted
    /\ console = emitted

\* ----------------------------------------------------------------- C3
\* C3: with file logging enabled the current file never rests at
\* logFileSizeLimit bytes or more (the write that reaches the limit is
\* followed at once by a rotation to an empty file), and once the written
\* bytes have reached the limit a backup generation 1 exists.
C3_RotatesAtLimit ==
    (logToFile /\ NoFailure)
    => /\ Bytes(file) < logFileSizeLimit
       /\ (maxBackupFiles > 0 /\ Bytes(FileSetLines) >= logFileSizeLimit)
          => backups # << >>

\* ----------------------------------------------------------------- C4
\* C4: at most maxBackupFiles backups exist, and once more rotations were
\* due than backups are kept, the oldest generation (the one holding the
\* first emitted record) is no longer in the session directory.
C4_BackupBoundOldestDiscarded ==
    (logToFile /\ NoFailure /\ streamBuf = << >>)
    => /\ Len(backups) <= maxBackupFiles
       /\ RotationsDue(emitted, 0) > maxBackupFiles
          => emitted[1] \notin Range(FileSetLines)

\* ----------------------------------------------------------------- C5
\* C5: no emission call ends by throwing to its caller, and no failed file
\* write surfaces later as an unhandled error of the host.
C5_NoSinkFailureEscapes ==
    /\ lastOutcome # "threw"
    /\ ~(pc = "crashed" /\ "write" \in failure)

\* ----------------------------------------------------------------- C6
\* C6: with file logging enabled, every emitted record is handed to the
\* file sink whether or not its console write failed, and is printed on the
\* console whether or not a file write failed.
C6_SinksIndependent ==
    (logToFile /\ pc \in {"ready", "crashed"})
    => /\ "open" \notin failure
          => Range(emitted) \subseteq Range(file \o streamBuf)
       /\ "console" \notin failure => console = emitted

\* ----------------------------------------------------------------- C7
\* C7: when the session directory cannot be created or the log file cannot
\* be opened, construction completes, the instance has file logging
\* disabled and keeps running (nothing is thrown, nothing is unhandled).
C7_SetupFailureDisablesFileLogging ==
    ("mkdir" \in failure \/ "open" \in failure)
    => /\ pc = "ready"
       /\ fileWriteStream = "undefined"

\* ----------------------------------------------------------------- C8
\* C8: an emission call with level >= minimumLogLevel that returns adds
\* exactly one line, that record, to the console; with logToFile it hands
\* exactly that one line to the file stream, and without logToFile there
\* is no stream, no log file and no session directory at all.
C8_ExactlyOneEntryPerSink ==
    [][ (Called /\ lastCall'.level >= minimumLogLevel /\ lastOutcome' = "returned")
        => LET line == emitted'[Len(emitted')]
           IN /\ emitted' = Append(emitted, line)
              /\ line.level = lastCall'.level
              /\ line.bytes = lastCall'.bytes
              /\ console' = Append(console, line)
              /\ file' = file
              /\ IF logToFile
                 THEN streamBuf' = Append(streamBuf, line)
                 ELSE /\ streamBuf' = << >>
                      /\ fileWriteStream' = "undefined"
                      /\ file' = << >>
                      /\ ~dirExists' ]_vars

C8_Witness ==
    /\ logToFile
    /\ lastOutcome = "returned"
    /\ lastCall.level >= minimumLogLevel
    /\ nCalls >= 2
    /\ streamBuf # << >>
    /\ console # << >>
    /\ streamBuf[Len(streamBuf)] = console[Len(console)]

\* ----------------------------------------------------------------- C9
\* C9: sizeLimit 100, maxBackupFiles 2, INFO lines of 40 bytes, everything
\* written: after up to two emissions the current file holds them and no
\* backup exists; after the third the current file holds only the third
\* line and backup generation 1 holds lines 1 and 2.
C9_ThreeLinesOfForty ==
    ( /\ logToFile /\ NoFailure /\ streamBuf = << >>
      /\ logFileSizeLimit = 100 /\ maxBackupFiles = 2
      /\ \A i \in 1..Len(emitted) :
            emitted[i].level = INFO /\ LineBytes(emitted[i]) = 40 )
    => /\ Len(emitted) <= 2 => (file = emitted /\ backups = << >>)
       /\ Len(emitted) = 3
          => /\ file = << emitted[3] >>
             /\ backups = << << emitted[1], emitted[2] >> >>

\* ---------------------------------------------------------------- C10
\* C10: with maxBackupFiles = 0 no backup file ever exists, and once the
\* written bytes exceed the size limit the current file no longer holds
\* the records from before the rotation point (the first one in particular).
C10_NoBackupsTruncates ==
    (logToFile /\ NoFailure /\ maxBackupFiles = 0 /\ streamBuf = << >>)
    => /\ backups = << >>
       /\ Bytes(emitted) > logFileSizeLimit => emitted[1] \notin Range(file)

====
